---- MODULE Spec2Model ----
(***************************************************************************)
(* A model of the ingestion pipeline of the Performance RAG service:       *)
(*   app/Routers/ingest.py   ingest_rows (full-refresh and incremental     *)
(*                           row synchronisation) and ingest_text          *)
(*   app/Services/chunking.py  iter_chunks / chunk_text                    *)
(*   app/rag/vectorstore.py    insert_chunk                                *)
(* The relational store is modelled by what the SQL statements in the      *)
(* source do to the tables document_metadata, document_rows and documents. *)
(* A handler is cut at its await points: one action is the completion of   *)
(* one awaited store operation followed by the synchronous code that runs  *)
(* up to the next await (asyncio runs a coroutine without interruption     *)
(* between two awaits).                                                    *)
(***************************************************************************)
EXTENDS Bags, FiniteSets, Integers, Sequences, TLC

\* ------------------------------------------------------------------ bounds

\* Longest list of incoming rows of one ingest_rows request.
MaxRows == 2

\* Most ingest_text requests of one behaviour.
MaxTextCalls == 2

\* ------------------------------------------------------- program constants

\* chunk_text(body.content, chunk_size=1000, overlap=150)
ChunkSize == 1000

Overlap == 150

\* asyncio.Semaphore(16)
SemaphoreLimit == 16

\* asyncpg.create_pool(..., max_size=5)
PoolMaxSize == 5

\* ------------------------------------------------------------- input values

\* Document / dataset ids of the requests.
FileIds == {"f1"}

\* A dataset that was ingested before and that no request names.
OtherId == "f0"

\* Titles of the requests (the URL is fixed: it is written like the title).
Titles == {"t1"}

Url == "u1"

\* The keys that occur in rows, in the order sort_keys=True puts them.
KeyOrder == <<"a", "b">>

\* A key-value record (a Python dict, which keeps insertion order): the
\* sequence of its (key, value) items.
Dict(items) == [isdict |-> TRUE, items |-> items]

\* An element of the row list that is not a dict (isinstance(row, dict) fails).
\* The handlers are modelled on the bodies their own code provides for, which
\* include the ones the declared field types of the body classes would turn
\* away: a row that is no dict, and the empty content.
NonRecord == [isdict |-> FALSE, items |-> <<>>]

\* The elements a row list is drawn from: two records with the same content in
\* different key order, a record with another content, and a non-record.
RowElems ==
    { Dict(<< <<"a", 1>>, <<"b", 2>> >>),
      Dict(<< <<"b", 2>>, <<"a", 1>> >>),
      Dict(<< <<"a", 2>> >>),
      NonRecord }

RECURSIVE Repeat(_, _)
\* The string s written k times.
Repeat(s, k) ==
    IF k = 0 THEN ""
    ELSE IF k % 2 = 0 THEN LET h == Repeat(s, k \div 2) IN h \o h
         ELSE s \o Repeat(s, k - 1)

\* A text of n characters (a Python str).
TextOf(n) == Repeat("ab", n \div 2) \o (IF n % 2 = 1 THEN "c" ELSE "")

\* The documents of the ingest_text requests: the empty text, a text that
\* fits one window, and a text of two windows.
Texts == { TextOf(0), TextOf(3), TextOf(ChunkSize + 1) }

\* The row lists of the requests: every list of 1 .. MaxRows elements, and the
\* list of one record without any key.
RowLists ==
    UNION { [1..n -> RowElems] : n \in 1..MaxRows } \cup { << Dict(<< >>) >> }

\* ------------------------------------------------------------- pure helpers

Range(s) == { s[i] : i \in 1..Len(s) }

HasKey(items, k) == \E i \in 1..Len(items) : items[i][1] = k

ValueOf(items, k) == items[CHOOSE i \in 1..Len(items) : items[i][1] = k][2]

RECURSIVE SortedItems(_, _)
\* The items of a record from the n-th key of KeyOrder on, in key order.
SortedItems(items, n) ==
    IF n > Len(KeyOrder) THEN << >>
    ELSE (IF HasKey(items, KeyOrder[n])
             THEN << <<KeyOrder[n], ValueOf(items, KeyOrder[n])>> >>
             ELSE << >>) \o SortedItems(items, n + 1)

\* _hash_row: the SHA-256 hex digest of the canonical JSON text of the row
\* (keys sorted, no whitespace).  The digest is taken to be injective on the
\* canonical texts, so the fingerprint is represented by the canonical text:
\* the items in sorted key order.
_hash_row(row) == SortedItems(row.items, 1)

\* json.dumps(row): the JSON text of the row, items in insertion order.
json_dumps(row) == row.items

RECURSIVE DedupKeys(_, _)
\* dict.fromkeys(...) over a key sequence: first-seen order, each key once.
DedupKeys(ks, seen) ==
    IF ks = << >> THEN << >>
    ELSE IF Head(ks) \in seen THEN DedupKeys(Tail(ks), seen)
         ELSE <<Head(ks)>> \o DedupKeys(Tail(ks), seen \cup {Head(ks)})

RECURSIVE AllKeys(_)
\* k for row in rows if isinstance(row, dict) for k in row.keys()
AllKeys(rows) ==
    IF rows = << >> THEN << >>
    ELSE (IF Head(rows).isdict
             THEN [i \in 1..Len(Head(rows).items) |-> Head(rows).items[i][1]]
             ELSE << >>) \o AllKeys(Tail(rows))

\* Variant: the keys that occur in the rows, in sorted order.
SchemaKeys_Sorted(rows) ==
    SelectSeq(KeyOrder, LAMBDA k : k \in Range(AllKeys(rows)))

\* schema_keys of ingest_rows.
SchemaKeys(rows) == DedupKeys(AllKeys(rows), {})

\* ------------------------------------------------------------------ chunker

Min(a, b) == IF a <= b THEN a ELSE b

RECURSIVE Windows_FullOnly(_, _, _, _, _)
\* Variant: the loop stops at the first window shorter than chunk_size.
Windows_FullOnly(text, chunk_size, step, idx, start) ==
    IF ~(start + chunk_size <= Len(text)) THEN << >>
    ELSE << <<idx, SubSeq(text, start + 1, start + chunk_size)>> >>
         \o Windows_FullOnly(text, chunk_size, step, idx + 1, start + step)

RECURSIVE Windows(_, _, _, _, _)
\* The sliding-window loop of iter_chunks from (idx, start) on: the pairs it
\* yields.  text[start:end] is the characters start+1 .. min(end, n).
Windows(text, chunk_size, step, idx, start) ==
    IF ~(start < Len(text)) THEN << >>
    ELSE LET end == start + chunk_size
             chunk == SubSeq(text, start + 1, Min(end, Len(text)))
         IN  IF Len(chunk) = 0 THEN << >>
             ELSE << <<idx, chunk>> >>
                  \o Windows(text, chunk_size, step, idx + 1, start + step)

\* Variant: the window advances by chunk_size, whatever the overlap.
iter_chunks_NoOverlap(text, chunk_size, overlap) ==
    IF Len(text) = 0 THEN [raised |-> FALSE, out |-> << >>]
    ELSE IF chunk_size <= 0 \/ overlap < 0 \/ overlap >= chunk_size
         THEN [raised |-> TRUE, out |-> << >>]
         ELSE [raised |-> FALSE,
               out |-> Windows(text, chunk_size, chunk_size, 0, 0)]

\* iter_chunks, run to its end: whether it raised ValueError, and the pairs
\* it yielded.
iter_chunks(text, chunk_size, overlap) ==
    IF Len(text) = 0 THEN [raised |-> FALSE, out |-> << >>]
    ELSE IF chunk_size <= 0 \/ overlap < 0 \/ overlap >= chunk_size
         THEN [raised |-> TRUE, out |-> << >>]
         ELSE IF Len(text) <= chunk_size
              THEN [raised |-> FALSE, out |-> << <<0, text>> >>]
              ELSE [raised |-> FALSE,
                    out |-> Windows(text, chunk_size, chunk_size - overlap, 0, 0)]

\* chunk_text: list(iter_chunks(...)).
chunk_text(text, chunk_size, overlap) == iter_chunks(text, chunk_size, overlap)

\* ------------------------------------------------------------------- state

\* Handler slots: the requests that can be in progress at the same time.
Procs == {1, 2}

VARIABLES
    document_metadata,  \* table document_metadata: id -> [title, url, schema]
    document_rows,      \* table document_rows: a bag of [dataset_id, row_data, row_hash]
    documents,          \* table documents: a bag of [content, metadata]
    rcall,              \* per slot, the ingest_rows call in progress (its frame)
    tcall,              \* per slot, the ingest_text call in progress (its frame)
    tasks,              \* the _insert tasks asyncio.gather has scheduled
    ngather,            \* how many ingest_text calls have reached their gather
    pcall,              \* the call of chunk_text or rag_search under examination
    _pool,              \* db._pool: NoPool or the pool the module refers to
    pools,              \* every pool create_pool has made, in order: its state
    dcall               \* per slot, the call of db.connect/close/fetch/exec

vars == <<document_metadata, document_rows, documents, rcall, tcall, tasks,
          ngather, pcall, _pool, pools, dcall>>

\* The state of module db.
dbVars == <<_pool, pools, dcall>>

\* What ingest_rows leaves alone, and what ingest_text leaves alone.
textVars == <<documents, tcall, tasks, ngather>>

rowsVars == <<document_rows, rcall>>

\* The schema column of a metadata record no UPDATE has set yet (NULL).
NoSchema == << >>

NoBody == [file_id |-> "", title |-> "", url |-> "", rows |-> << >>,
           full_refresh |-> FALSE]

NoResponse == [status |-> "none", code |-> 0, mode |-> "", rows_inserted |-> 0,
               rows_deleted |-> 0, schema_keys |-> << >>, detail |-> ""]

\* The frame of a slot in which no call runs.  pre_rows and pre_meta are the
\* tables as the call found them, writes the store statements the call has
\* issued and the store has executed, in order, and after how the previous
\* call ended when this call repeats its request, with in prior the status
\* code of that call and the number of DELETE and INSERT statements on
\* document_rows it had executed: history kept for stating the properties,
\* read by no action.
IdleCall ==
    [pc |-> "idle", body |-> NoBody, schema_keys |-> << >>,
     incoming |-> << >>, incoming_hashes |-> {}, existing_hashes |-> {},
     to_insert |-> << >>, to_delete |-> {}, i |-> 0,
     inserted |-> 0, deleted |-> 0, response |-> NoResponse,
     pre_rows |-> EmptyBag, pre_meta |-> << >>, writes |-> << >>,
     after |-> "none", prior |-> [code |-> 0, row_writes |-> 0]]

\* The store holds the dataset OtherId, one row, as a full-refresh ingestion
\* of [{"a": 1, "b": 2}] leaves it; no request is in progress.
InitRowsStore ==
    /\ document_metadata =
         [id \in {OtherId} |-> [title |-> "t0", url |-> Url,
                                schema |-> <<"a", "b">>]]
    /\ document_rows =
         SetToBag({[dataset_id |-> OtherId,
                    row_data |-> << <<"a", 1>>, <<"b", 2>> >>,
                    row_hash |-> << <<"a", 1>>, <<"b", 2>> >>]})

NoTextBody == [file_id |-> "", title |-> "", url |-> "", content |-> ""]

NoTextResponse == [status |-> "none", code |-> 0, chunks_inserted |-> 0,
                   detail |-> ""]

\* The frame of a slot in which no ingest_text call runs.  gather is the
\* number of the call's gather (0: not reached).  pre_documents and pre_meta
\* are the tables as the call found them, wrote the chunk indexes whose INSERT
\* completed while the call awaited its gather, and failed whether one of its
\* tasks raised meanwhile: history kept for stating the properties, read by
\* no action.
IdleText ==
    [pc |-> "idle", body |-> NoTextBody, inserted |-> 0, gather |-> 0,
     response |-> NoTextResponse,
     pre_documents |-> EmptyBag, pre_meta |-> << >>, wrote |-> {},
     failed |-> FALSE]

\* No call of chunk_text or rag_search is under examination.
NoCall == [fn |-> "none", pc |-> "none"]

\* _pool = None.
NoPool == 0

\* No call of module db is in progress in a slot. pool is the pool the call
\* holds across its await, at_call the value of _pool when the call began,
\* ran whether a query was handed to a pool.
IdleDb ==
    [fn |-> "none", pc |-> "idle", pool |-> NoPool, at_call |-> NoPool,
     error |-> FALSE, ran |-> FALSE]

\* The stores and the handler slots after start-up.
InitService ==
    /\ InitRowsStore
    /\ documents = EmptyBag
    /\ rcall = [p \in Procs |-> IdleCall]
    /\ tcall = [p \in Procs |-> IdleText]
    /\ tasks = {}
    /\ ngather = 0
    /\ _pool = NoPool
    /\ pools = << >>
    /\ dcall = [p \in Procs |-> IdleDb]

Init ==
    /\ InitService
    /\ pcall = NoCall

\* ------------------------------------------------------------ store effects

\* The rows of bag b that satisfy Keep.
BagFilter(b, Keep(_)) == [e \in {x \in DOMAIN b : Keep(x)} |-> b[e]]

\* INSERT INTO document_metadata ... ON CONFLICT (id) DO UPDATE SET title, url
UpsertMetadataEffect(meta, file_id, title, url) ==
    IF file_id \in DOMAIN meta
    THEN [meta EXCEPT ![file_id].title = title, ![file_id].url = url]
    ELSE [id \in DOMAIN meta \cup {file_id} |->
            IF id = file_id
            THEN [title |-> title, url |-> url, schema |-> NoSchema]
            ELSE meta[id]]

\* UPDATE document_metadata SET schema = $2 WHERE id = $1
UpdateSchemaEffect(meta, file_id, schema_keys) ==
    IF file_id \in DOMAIN meta
    THEN [meta EXCEPT ![file_id].schema = schema_keys]
    ELSE meta

\* Variant: the DELETE of the full refresh removes nothing.
DeleteAllRowsEffect_Kept(tbl, file_id) == tbl

\* DELETE FROM document_rows WHERE dataset_id = $1
DeleteAllRowsEffect(tbl, file_id) ==
    BagFilter(tbl, LAMBDA r : r.dataset_id # file_id)

\* Variant: the DELETE of the incremental mode without its row_hash condition.
DeleteHashesEffect_NoHashFilter(tbl, file_id, hashes) ==
    BagFilter(tbl, LAMBDA r : r.dataset_id # file_id)

\* DELETE FROM document_rows WHERE dataset_id = $1 AND row_hash = ANY($2)
DeleteHashesEffect(tbl, file_id, hashes) ==
    BagFilter(tbl, LAMBDA r : ~(r.dataset_id = file_id /\ r.row_hash \in hashes))

\* Variant: the INSERT stores nothing.
InsertRowEffect_Dropped(tbl, file_id, row_data, row_hash) == tbl

\* INSERT INTO document_rows (dataset_id, row_data, row_hash) VALUES ($1, $2, $3)
InsertRowEffect(tbl, file_id, row_data, row_hash) ==
    tbl (+) SetToBag({[dataset_id |-> file_id, row_data |-> row_data,
                       row_hash |-> row_hash]})

\* SELECT row_hash FROM document_rows WHERE dataset_id = $1, then
\* {r.get("row_hash") for r in existing_rows if r.get("row_hash")}
\* (every stored fingerprint is a non-empty hex string, so none is dropped).
ExistingHashes(tbl, file_id) ==
    { r.row_hash : r \in {x \in BagToSet(tbl) : x.dataset_id = file_id} }

\* One executed store statement, as the history records it.
Op(name, file_id, hashes) == [op |-> name, file_id |-> file_id, hashes |-> hashes]

\* ---------------------------------------------------------------- ingest_rows

\* The call ends by raising: HTTPException(400) or the store's RuntimeError.
Raise(c, code, detail) ==
    [c EXCEPT !.pc = "error",
              !.response = [NoResponse EXCEPT !.status = "error", !.code = code,
                                              !.detail = detail]]

\* Variant: the response with its two counts exchanged.
ReturnRows_Exchanged(c, mode) ==
    [c EXCEPT !.pc = "ok",
              !.response = [status |-> "ok", code |-> 200, mode |-> mode,
                            rows_inserted |-> c.deleted,
                            rows_deleted |-> c.inserted,
                            schema_keys |-> c.schema_keys, detail |-> ""]]

\* The call returns RowsIngestResponse(status="ok", ...).
ReturnRows(c, mode) ==
    [c EXCEPT !.pc = "ok",
              !.response = [status |-> "ok", code |-> 200, mode |-> mode,
                            rows_inserted |-> c.inserted,
                            rows_deleted |-> c.deleted,
                            schema_keys |-> c.schema_keys, detail |-> ""]]

Logged(c, op) == [c EXCEPT !.writes = Append(c.writes, op)]

\* Variant: every incoming row is inserted, stored or not.
ToInsert_All(incoming, existing_hashes) == incoming

\* to_insert = [item for item in incoming if item[0] not in existing_hashes]
ToInsert(incoming, existing_hashes) ==
    SelectSeq(incoming, LAMBDA item : item[1] \notin existing_hashes)

\* Variant: every stored fingerprint is deleted, incoming or not.
ToDelete_All(existing_hashes, incoming_hashes) == existing_hashes

\* Variant: no stored fingerprint is deleted.
ToDelete_None(existing_hashes, incoming_hashes) == {}

\* to_delete = list(existing_hashes - incoming_hashes)
ToDelete(existing_hashes, incoming_hashes) == existing_hashes \ incoming_hashes

\* Variant: the full-refresh loop ends after its first row.
FullRefreshLoop_OneRow(c, i) ==
    IF i > Len(c.body.rows) \/ i > 1 THEN ReturnRows(c, "full_refresh")
    ELSE IF ~c.body.rows[i].isdict
         THEN Raise(c, 400, "Each row must be a JSON object.")
         ELSE [c EXCEPT !.pc = "fr_insert", !.i = i]

\* The full-refresh loop from row i on, up to its next await: the isinstance
\* check of row i, then the INSERT of row i is awaited; after the last row the
\* call returns with rows_deleted = 0.
FullRefreshLoop(c, i) ==
    IF i > Len(c.body.rows) THEN ReturnRows(c, "full_refresh")
    ELSE IF ~c.body.rows[i].isdict
         THEN Raise(c, 400, "Each row must be a JSON object.")
         ELSE [c EXCEPT !.pc = "fr_insert", !.i = i]

\* Variant: the fingerprinting loop without its isinstance check.
HashIncoming_Unchecked(c) ==
    [c EXCEPT
       !.pc = "inc_fetch",
       !.incoming = [i \in 1..Len(c.body.rows) |->
                       <<_hash_row(c.body.rows[i]), c.body.rows[i]>>],
       !.incoming_hashes = { _hash_row(c.body.rows[i]) :
                               i \in 1..Len(c.body.rows) }]

\* The fingerprinting loop of the incremental mode (no await in it): every
\* row is checked and hashed; then the SELECT is awaited.
HashIncoming(c) ==
    IF \E i \in 1..Len(c.body.rows) : ~c.body.rows[i].isdict
    THEN Raise(c, 400, "Each row must be a JSON object.")
    ELSE [c EXCEPT
            !.pc = "inc_fetch",
            !.incoming = [i \in 1..Len(c.body.rows) |->
                            <<_hash_row(c.body.rows[i]), c.body.rows[i]>>],
            !.incoming_hashes = { _hash_row(c.body.rows[i]) :
                                    i \in 1..Len(c.body.rows) }]

\* The insert loop of the incremental mode from item i of to_insert on.
IncrementalLoop(c, i) ==
    IF i > Len(c.to_insert) THEN ReturnRows(c, "incremental")
    ELSE [c EXCEPT !.pc = "inc_insert", !.i = i]

\* A request arrives: the handler starts and awaits upsert_document_metadata.
\* The body is what IngestRowsBody admits (rows has at least one element).
IngestRows(p, body) ==
    /\ rcall[p].pc = "idle"
    /\ rcall' = [rcall EXCEPT ![p] =
                   [IdleCall EXCEPT !.pc = "upsert_metadata", !.body = body,
                                    !.pre_rows = document_rows,
                                    !.pre_meta = document_metadata]]
    /\ UNCHANGED <<document_metadata, document_rows, textVars, pcall, dbVars>>

\* upsert_document_metadata completes; the schema is derived; an empty schema
\* raises 400, otherwise update_document_schema is awaited.
UpsertMetadata(p) ==
    LET c == rcall[p]
        done == Logged(c, Op("upsert_metadata", c.body.file_id, {}))
        keys == SchemaKeys(c.body.rows)
    IN  /\ c.pc = "upsert_metadata"
        /\ document_metadata' =
             UpsertMetadataEffect(document_metadata, c.body.file_id,
                                  c.body.title, c.body.url)
        /\ rcall' = [rcall EXCEPT ![p] =
             IF keys = << >>
             THEN Raise(done, 400,
                        "Rows must be JSON objects with at least one key.")
             ELSE [done EXCEPT !.pc = "update_schema", !.schema_keys = keys]]
        /\ UNCHANGED <<document_rows, textVars, pcall, dbVars>>

\* update_document_schema completes; full_refresh awaits its DELETE, the
\* incremental mode fingerprints the rows and awaits its SELECT.
UpdateSchema(p) ==
    LET c == rcall[p]
        done == Logged(c, Op("update_schema", c.body.file_id, {}))
    IN  /\ c.pc = "update_schema"
        /\ document_metadata' =
             UpdateSchemaEffect(document_metadata, c.body.file_id, c.schema_keys)
        /\ rcall' = [rcall EXCEPT ![p] =
             IF c.body.full_refresh
             THEN [done EXCEPT !.pc = "fr_delete"]
             ELSE HashIncoming(done)]
        /\ UNCHANGED <<document_rows, textVars, pcall, dbVars>>

\* Full refresh: the DELETE of every row of the dataset completes.
FullRefreshDelete(p) ==
    LET c == rcall[p]
        done == Logged(c, Op("delete_all", c.body.file_id, {}))
    IN  /\ c.pc = "fr_delete"
        /\ document_rows' = DeleteAllRowsEffect(document_rows, c.body.file_id)
        /\ rcall' = [rcall EXCEPT ![p] = FullRefreshLoop(done, 1)]
        /\ UNCHANGED <<document_metadata, textVars, pcall, dbVars>>

\* Full refresh: the INSERT of row i completes; inserted += 1.
FullRefreshInsert(p) ==
    LET c == rcall[p]
        row == c.body.rows[c.i]
        done == Logged([c EXCEPT !.inserted = c.inserted + 1],
                       Op("insert", c.body.file_id, {_hash_row(row)}))
    IN  /\ c.pc = "fr_insert"
        /\ document_rows' = InsertRowEffect(document_rows, c.body.file_id,
                                            json_dumps(row), _hash_row(row))
        /\ rcall' = [rcall EXCEPT ![p] = FullRefreshLoop(done, c.i + 1)]
        /\ UNCHANGED <<document_metadata, textVars, pcall, dbVars>>

\* Incremental: the SELECT of the stored fingerprints completes; the diff is
\* computed; the DELETE is awaited if there is something to delete.
IncrementalFetch(p) ==
    LET c == rcall[p]
        existing == ExistingHashes(document_rows, c.body.file_id)
        diffed == [c EXCEPT !.existing_hashes = existing,
                            !.to_insert = ToInsert(c.incoming, existing),
                            !.to_delete = ToDelete(existing, c.incoming_hashes)]
    IN  /\ c.pc = "inc_fetch"
        /\ rcall' = [rcall EXCEPT ![p] =
             IF diffed.to_delete # {}
             THEN [diffed EXCEPT !.pc = "inc_delete"]
             ELSE IncrementalLoop(diffed, 1)]
        /\ UNCHANGED <<document_metadata, document_rows, textVars, pcall, dbVars>>

\* Incremental: the DELETE of the fingerprints in to_delete completes;
\* deleted = len(to_delete).
IncrementalDelete(p) ==
    LET c == rcall[p]
        done == Logged([c EXCEPT !.deleted = Cardinality(c.to_delete)],
                       Op("delete_hashes", c.body.file_id, c.to_delete))
    IN  /\ c.pc = "inc_delete"
        /\ document_rows' =
             DeleteHashesEffect(document_rows, c.body.file_id, c.to_delete)
        /\ rcall' = [rcall EXCEPT ![p] = IncrementalLoop(done, 1)]
        /\ UNCHANGED <<document_metadata, textVars, pcall, dbVars>>

\* Incremental: the INSERT of item i of to_insert completes; inserted += 1.
IncrementalInsert(p) ==
    LET c == rcall[p]
        item == c.to_insert[c.i]
        done == Logged([c EXCEPT !.inserted = c.inserted + 1],
                       Op("insert", c.body.file_id, {item[1]}))
    IN  /\ c.pc = "inc_insert"
        /\ document_rows' = InsertRowEffect(document_rows, c.body.file_id,
                                            json_dumps(item[2]), item[1])
        /\ rcall' = [rcall EXCEPT ![p] = IncrementalLoop(done, c.i + 1)]
        /\ UNCHANGED <<document_metadata, textVars, pcall, dbVars>>

\* The awaited store operation raises (db.exec / db.fetch wrap every failure
\* in RuntimeError, also "pool is not initialized"); nothing is written and
\* the error leaves the handler.
RowsStoreFails(p) ==
    /\ rcall[p].pc \in {"upsert_metadata", "update_schema", "fr_delete",
                        "fr_insert", "inc_fetch", "inc_delete", "inc_insert"}
    /\ rcall' = [rcall EXCEPT ![p] = Raise(rcall[p], 500, "Database failed")]
    /\ UNCHANGED <<document_metadata, document_rows, textVars, pcall, dbVars>>

\* The response (or the error) has been delivered; the slot is free again.
RowsDone(p) ==
    /\ rcall[p].pc \in {"ok", "error"}
    /\ rcall' = [rcall EXCEPT ![p] = IdleCall]
    /\ UNCHANGED <<document_metadata, document_rows, textVars, pcall, dbVars>>

\* The caller sends the request of the call that just returned (with a
\* response or with an error) once more, before any other request.
IngestRowsAgain(p) ==
    /\ rcall[p].pc \in {"ok", "error"}
    /\ rcall' = [rcall EXCEPT ![p] =
                   [IdleCall EXCEPT !.pc = "upsert_metadata",
                                    !.body = rcall[p].body,
                                    !.pre_rows = document_rows,
                                    !.pre_meta = document_metadata,
                                    !.after = rcall[p].pc,
                                    !.prior =
                                      [code |-> rcall[p].response.code,
                                       row_writes |->
                                         Len(SelectSeq(rcall[p].writes,
                                               LAMBDA w : w.op \in
                                                 {"delete_all", "delete_hashes",
                                                  "insert"}))]]]
    /\ UNCHANGED <<document_metadata, document_rows, textVars, pcall, dbVars>>

RowsBodies ==
    [file_id : FileIds, title : Titles, url : {Url}, rows : RowLists,
     full_refresh : BOOLEAN]

RowsStep(p) ==
    \/ UpsertMetadata(p)
    \/ UpdateSchema(p)
    \/ FullRefreshDelete(p)
    \/ FullRefreshInsert(p)
    \/ IncrementalFetch(p)
    \/ IncrementalDelete(p)
    \/ IncrementalInsert(p)
    \/ RowsStoreFails(p)
    \/ RowsDone(p)
    \/ IngestRowsAgain(p)

\* ingest_rows calls that do not overlap in time: a call starts only when no
\* other call is in progress.
NextRows ==
    \/ \E body \in RowsBodies :
         /\ \A q \in Procs : rcall[q].pc = "idle"
         /\ IngestRows(1, body)
    \/ RowsStep(1)

SpecRows == Init /\ [][NextRows]_vars

\* The full-refresh requests of the calls that overlap in time: row lists of
\* records only.
OverlapBodies ==
    { b \in RowsBodies :
        b.full_refresh /\ \A i \in 1..Len(b.rows) : b.rows[i].isdict }

\* ingest_rows calls that overlap in time: the server runs every request as a
\* task of its own on one event loop, so a call starts whenever a slot is
\* free and the calls in progress take their steps (from one await to the
\* next) in any order.  One call per slot; the store works: no statement
\* fails.
OverlapStep(p) ==
    \/ UpsertMetadata(p)
    \/ UpdateSchema(p)
    \/ FullRefreshDelete(p)
    \/ FullRefreshInsert(p)

NextRowsOverlap ==
    \E p \in Procs :
        \/ \E body \in OverlapBodies : IngestRows(p, body)
        \/ OverlapStep(p)

SpecRowsOverlap == Init /\ [][NextRowsOverlap]_vars

\* ---------------------------------------------------------------- ingest_text

\* DELETE FROM documents WHERE metadata->>'file_id' = $1
DeleteVectorsEffect(tbl, file_id) ==
    BagFilter(tbl, LAMBDA d : d.metadata.file_id # file_id)

\* insert into documents (content, metadata, embedding) values (...): the
\* embedding is a function of the content and is left out of the record.
InsertChunkEffect(tbl, content, metadata) ==
    tbl (+) SetToBag({[content |-> content, metadata |-> metadata]})

\* meta of _insert(idx, chunk).
ChunkMeta(body, idx) ==
    [file_id |-> body.file_id, file_title |-> body.title,
     file_url |-> body.url, file_type |-> "text", chunk_index |-> idx]

\* The task asyncio.gather makes of the coroutine _insert(idx, chunk) of the
\* call with gather number g.  It waits (for its first run, or in
\* semaphore.acquire), then is inside insert_chunk awaiting the INSERT
\* ("writing"), then has finished ("done") or raised ("failed").
Task(g, body, idx, chunk) ==
    [gather |-> g, idx |-> idx, chunk |-> chunk,
     meta |-> ChunkMeta(body, idx), state |-> "waiting"]

\* The tasks of a gather that hold the semaphore: they are between acquire
\* and release, awaiting their INSERT.
InFlight(g) == { t \in tasks : t.gather = g /\ t.state = "writing" }

\* The call that awaits gather g, if it has not returned yet.
Awaiting(g) == { p \in Procs : tcall[p].pc = "gather" /\ tcall[p].gather = g }

\* The task of chunk i of gather g, while it has not been dropped.
TaskAt(g, i) == { t \in tasks : t.gather = g /\ t.idx = i }

\* Variant: the result of a finished task is kept for nobody.
Finished_Dropped(t, how) == tasks \ {t}

\* The frames after a task of gather g raised: the call that awaits the
\* gather has a failed task.
NoteFailed(g) ==
    [p \in Procs |->
       IF p \in Awaiting(g) THEN [tcall[p] EXCEPT !.failed = TRUE]
       ELSE tcall[p]]

\* A task has finished: while its call awaits the gather the result is kept
\* for it, afterwards nobody reads it.
Finished(t, how) ==
    IF Awaiting(t.gather) # {}
    THEN (tasks \ {t}) \cup {[t EXCEPT !.state = how]}
    ELSE tasks \ {t}

TextRaise(c, code, detail) ==
    [c EXCEPT !.pc = "error",
              !.response = [NoTextResponse EXCEPT !.status = "error",
                                                  !.code = code,
                                                  !.detail = detail]]

\* A request arrives: the handler starts and awaits upsert_document_metadata.
IngestText(p, body) ==
    /\ tcall[p].pc = "idle"
    /\ ngather < MaxTextCalls
    /\ tcall' = [tcall EXCEPT ![p] =
                   [IdleText EXCEPT !.pc = "upsert_metadata", !.body = body,
                                    !.pre_documents = documents,
                                    !.pre_meta = document_metadata]]
    /\ UNCHANGED <<document_metadata, documents, tasks, ngather, rowsVars, pcall, dbVars>>

\* upsert_document_metadata completes; delete_vectors_for_file is awaited.
TextUpsertMetadata(p) ==
    LET c == tcall[p]
    IN  /\ c.pc = "upsert_metadata"
        /\ document_metadata' =
             UpsertMetadataEffect(document_metadata, c.body.file_id,
                                  c.body.title, c.body.url)
        /\ tcall' = [tcall EXCEPT ![p].pc = "delete_vectors"]
        /\ UNCHANGED <<documents, tasks, ngather, rowsVars, pcall, dbVars>>

\* delete_vectors_for_file completes; the content is chunked; no chunk raises
\* 400; otherwise gather schedules one _insert task per chunk and is awaited.
DeleteVectors(p) ==
    LET c == tcall[p]
        chunks == chunk_text(c.body.content, ChunkSize, Overlap).out
        g == ngather + 1
    IN  /\ c.pc = "delete_vectors"
        /\ documents' = DeleteVectorsEffect(documents, c.body.file_id)
        /\ IF chunks = << >>
           THEN /\ tcall' = [tcall EXCEPT ![p] =
                       TextRaise(c, 400, "No chunks produced from content.")]
                /\ UNCHANGED <<tasks, ngather>>
           ELSE /\ tcall' = [tcall EXCEPT ![p] =
                       [c EXCEPT !.pc = "gather", !.gather = g]]
                /\ tasks' = tasks \cup
                       { Task(g, c.body, chunks[k][1], chunks[k][2]) :
                           k \in 1..Len(chunks) }
                /\ ngather' = g
        /\ UNCHANGED <<document_metadata, rowsVars, pcall, dbVars>>

\* Variant: a waiting task runs without acquiring the semaphore.
TaskStart_NoSemaphore(g, i) ==
  \E t \in TaskAt(g, i) :
    /\ t.state = "waiting"
    /\ \A u \in tasks : (u.gather = t.gather /\ u.state = "waiting") => t.idx <= u.idx
    /\ tasks' = (tasks \ {t}) \cup {[t EXCEPT !.state = "writing"]}
    /\ UNCHANGED <<document_metadata, documents, tcall, ngather, rowsVars, pcall, dbVars>>

\* The next waiting task of a gather runs (tasks run, and semaphore waiters
\* wake, in creation order): it acquires the semaphore, and insert_chunk
\* embeds the chunk and awaits the INSERT.
TaskStart(g, i) ==
  \E t \in TaskAt(g, i) :
    /\ t.state = "waiting"
    /\ \A u \in tasks : (u.gather = t.gather /\ u.state = "waiting") => t.idx <= u.idx
    /\ Cardinality(InFlight(t.gather)) < SemaphoreLimit
    /\ tasks' = (tasks \ {t}) \cup {[t EXCEPT !.state = "writing"]}
    /\ UNCHANGED <<document_metadata, documents, tcall, ngather, rowsVars, pcall, dbVars>>

\* As TaskStart, but embed_text raises (or returns no list): the task ends
\* with the error and the semaphore is released.
TaskEmbedFails(g, i) ==
  \E t \in TaskAt(g, i) :
    /\ t.state = "waiting"
    /\ \A u \in tasks : (u.gather = t.gather /\ u.state = "waiting") => t.idx <= u.idx
    /\ Cardinality(InFlight(t.gather)) < SemaphoreLimit
    /\ tasks' = Finished(t, "failed")
    /\ tcall' = NoteFailed(t.gather)
    /\ UNCHANGED <<document_metadata, documents, ngather, rowsVars, pcall, dbVars>>

\* The statement of a writing task has a connection of the pool.  The pool
\* hands its max_size connections out in the order of the requests, and the
\* tasks of a gather request theirs in index order: a task is served unless
\* max_size tasks of its gather that asked before it are still writing.
HasConnection(t) ==
    Cardinality({ u \in InFlight(t.gather) : u.idx < t.idx }) < PoolMaxSize

\* The INSERT of a task completes: the chunk record is stored, inserted += 1
\* in the frame of its call, the semaphore is released.
TaskWrite(g, i) ==
  \E t \in TaskAt(g, i) :
    /\ t.state = "writing"
    /\ HasConnection(t)
    /\ documents' = InsertChunkEffect(documents, t.chunk, t.meta)
    /\ tasks' = Finished(t, "done")
    /\ tcall' = [p \in Procs |->
                   IF p \in Awaiting(t.gather)
                   THEN [tcall[p] EXCEPT !.inserted = tcall[p].inserted + 1,
                                         !.wrote = tcall[p].wrote \cup {t.idx}]
                   ELSE tcall[p]]
    /\ UNCHANGED <<document_metadata, ngather, rowsVars, pcall, dbVars>>

\* The INSERT of a task raises: "Failed to insert chunk".
TaskWriteFails(g, i) ==
  \E t \in TaskAt(g, i) :
    /\ t.state = "writing"
    /\ tasks' = Finished(t, "failed")
    /\ tcall' = NoteFailed(t.gather)
    /\ UNCHANGED <<document_metadata, documents, ngather, rowsVars, pcall, dbVars>>

\* await asyncio.gather(...) raises: gather passes the first exception of a
\* task on to the handler at once and cancels none of the other tasks; the
\* error leaves the handler.
GatherRaises(p) ==
    LET c == tcall[p]
    IN  /\ c.pc = "gather"
        /\ \E t \in tasks : t.gather = c.gather /\ t.state = "failed"
        /\ tcall' = [tcall EXCEPT ![p] = TextRaise(c, 500, "chunk write failed")]
        /\ tasks' = { t \in tasks :
                        ~(t.gather = c.gather /\ t.state \in {"done", "failed"}) }
        /\ UNCHANGED <<document_metadata, documents, ngather, rowsVars, pcall, dbVars>>

\* await asyncio.gather(...) returns: every task is done; the handler returns
\* TextIngestResponse(status="ok", chunks_inserted=inserted).
GatherReturns(p) ==
    LET c == tcall[p]
    IN  /\ c.pc = "gather"
        /\ \A t \in tasks : t.gather = c.gather => t.state = "done"
        /\ tcall' = [tcall EXCEPT ![p] =
             [c EXCEPT !.pc = "ok",
                       !.response = [status |-> "ok", code |-> 200,
                                     chunks_inserted |-> c.inserted,
                                     detail |-> ""]]]
        /\ tasks' = { t \in tasks : t.gather # c.gather }
        /\ UNCHANGED <<document_metadata, documents, ngather, rowsVars, pcall, dbVars>>

\* The awaited store operation of the handler itself raises.
TextStoreFails(p) ==
    /\ tcall[p].pc \in {"upsert_metadata", "delete_vectors"}
    /\ tcall' = [tcall EXCEPT ![p] = TextRaise(tcall[p], 500, "Database failed")]
    /\ UNCHANGED <<document_metadata, documents, tasks, ngather, rowsVars, pcall, dbVars>>

\* The response (or the error) has been delivered; the slot is free again.
TextDone(p) ==
    /\ tcall[p].pc \in {"ok", "error"}
    /\ tcall' = [tcall EXCEPT ![p] = IdleText]
    /\ UNCHANGED <<document_metadata, documents, tasks, ngather, rowsVars, pcall, dbVars>>

TextBodies ==
    [file_id : FileIds, title : Titles, url : {Url}, content : Texts]

TextStep(p) ==
    \/ TextUpsertMetadata(p)
    \/ DeleteVectors(p)
    \/ GatherRaises(p)
    \/ GatherReturns(p)
    \/ TextStoreFails(p)
    \/ TextDone(p)

TaskStep(g, i) ==
    \/ TaskStart(g, i)
    \/ TaskEmbedFails(g, i)
    \/ TaskWrite(g, i)
    \/ TaskWriteFails(g, i)

\* The chunk indexes of the requests' texts.
ChunkIndexes ==
    UNION { 0..(Len(chunk_text(text, ChunkSize, Overlap).out) - 1) :
              text \in Texts }

\* ingest_text calls that do not overlap in time: a call starts only when no
\* other call is in progress.  The tasks of a call run whenever they can.
NextText ==
    \/ \E body \in TextBodies :
         /\ \A q \in Procs : tcall[q].pc = "idle"
         /\ IngestText(1, body)
    \/ TextStep(1)
    \/ \E g \in 1..MaxTextCalls, i \in ChunkIndexes : TaskStep(g, i)

SpecText == Init /\ [][NextText]_vars

\* A document of one chunk more than the semaphore admits at a time.
FanOutText == TextOf((SemaphoreLimit + 1) * (ChunkSize - Overlap))

FanOutBodies ==
    [file_id : FileIds, title : Titles, url : {Url}, content : {FanOutText}]

FanOutIndexes ==
    0..(Len(chunk_text(FanOutText, ChunkSize, Overlap).out) - 1)

\* One ingest_text call of the large document; the embedding service and the
\* store work: no chunk write fails.
NextFanOut ==
    \/ \E body \in FanOutBodies :
         /\ ngather = 0
         /\ IngestText(1, body)
    \/ TextUpsertMetadata(1)
    \/ DeleteVectors(1)
    \/ \E i \in FanOutIndexes : TaskStart(1, i)
    \/ \E i \in FanOutIndexes : TaskWrite(1, i)
    \/ GatherReturns(1)

\* The event loop keeps running what is ready, and the store answers every
\* statement: while a step of the call or of its tasks is possible, one is
\* taken.
SpecFanOut == Init /\ [][NextFanOut]_vars /\ WF_vars(NextFanOut)

\* ------------------------------------------ calls of chunk_text, rag_search

\* Longest text of a chunk_text call.
MaxChunkText == 7

\* Largest chunk_size and overlap of a chunk_text call.
MaxParam == 4

\* Largest k of a rag_search call.
MaxK == 2

\* The most pools create_pool makes in one run.
MaxPools == 3

\* Longest list of snippets of a _join_context call.
MaxSnippets == 3

\* Largest max_chars of a _join_context call.
MaxBudget == 18

Alphabet == "abcdefghijklmnopqrstuvwxyz"

\* The texts of the chunk_text calls: no character occurs twice in a text.
ChunkTexts == { SubSeq(Alphabet, 1, n) : n \in 0..MaxChunkText }

\* The arguments of the chunk_text calls: every text with every pair of
\* parameters from -1 on, valid or not, and a text of 2500 characters with
\* the parameters of ingest_text.
ChunkerArgs ==
    [text : ChunkTexts, chunk_size : -1..MaxParam, overlap : -1..MaxParam]
    \cup {[text |-> TextOf(2500), chunk_size |-> ChunkSize, overlap |-> Overlap]}

\* The arguments of the rag_search calls (query is a str, k an int and
\* filter_json a dict or None: the isinstance checks of rag_search pass).
SearchArgs == [query : {"", " ", "  ", "q", " q "}, k : -1..MaxK]

\* The arguments of the _join_context calls: lists of empty and non-empty
\* snippets, and budgets from 0 on.
JoinArgs ==
    [snippets : UNION { [1..n -> {"", "a", "bb"}] : n \in 0..MaxSnippets },
     max_chars : 0..MaxBudget]

\* sep of _join_context.
Sep == "\n\n---\n\n"

RECURSIVE SepJoin(_)
\* sep.join(joined)
SepJoin(joined) ==
    IF joined = << >> THEN ""
    ELSE IF Len(joined) = 1 THEN joined[1]
    ELSE joined[1] \o Sep \o SepJoin(Tail(joined))

RECURSIVE JoinLoop_Continue(_, _, _, _, _)
\* Variant: a snippet that does not fit is skipped and the loop goes on.
JoinLoop_Continue(snippets, max_chars, i, joined, used) ==
    IF i > Len(snippets) THEN joined
    ELSE LET s == snippets[i]
             add == Len(s) + (IF joined # << >> THEN Len(Sep) ELSE 0)
         IN  IF Len(s) = 0 \/ used + add > max_chars
             THEN JoinLoop_Continue(snippets, max_chars, i + 1, joined, used)
             ELSE JoinLoop_Continue(snippets, max_chars, i + 1,
                                    Append(joined, s), used + add)

RECURSIVE JoinLoop(_, _, _, _, _)
\* The loop of _join_context from snippet i on: the list joined at its end.
JoinLoop(snippets, max_chars, i, joined, used) ==
    IF i > Len(snippets) THEN joined
    ELSE LET s == snippets[i]
             add == Len(s) + (IF joined # << >> THEN Len(Sep) ELSE 0)
         IN  IF Len(s) = 0
             THEN JoinLoop(snippets, max_chars, i + 1, joined, used)
             ELSE IF used + add > max_chars THEN joined
             ELSE JoinLoop(snippets, max_chars, i + 1, Append(joined, s),
                           used + add)

_join_context(snippets, max_chars) ==
    SepJoin(JoinLoop(snippets, max_chars, 1, << >>, 0))

\* The calls under examination, before they run.
Calls ==
    { [fn |-> "chunk_text", pc |-> "called", args |-> a, out |-> << >>] :
        a \in ChunkerArgs }
    \cup
    { [fn |-> "rag_search", pc |-> "called", args |-> a, error |-> "",
       embed_calls |-> 0] : a \in SearchArgs }
    \cup
    { [fn |-> "_join_context", pc |-> "called", args |-> a, result |-> ""] :
        a \in JoinArgs }

InitCalls ==
    /\ InitService
    /\ pcall \in Calls

\* chunk_text(text, chunk_size, overlap) runs: it returns the list of pairs or
\* raises the ValueError of iter_chunks.
ChunkText ==
    /\ pcall.fn = "chunk_text"
    /\ pcall.pc = "called"
    /\ LET r == chunk_text(pcall.args.text, pcall.args.chunk_size,
                           pcall.args.overlap)
       IN  pcall' = [pcall EXCEPT
                       !.pc = IF r.raised THEN "raised" ELSE "returned",
                       !.out = r.out]
    /\ UNCHANGED <<document_metadata, rowsVars, textVars, dbVars>>

\* rag_search runs up to its await: "not query" and "k <= 0" raise
\* ValueError; otherwise embed_text(query) is called, and it raises, or it
\* returns the embedding and fetch(...) is awaited.
RagSearch ==
    /\ pcall.fn = "rag_search"
    /\ pcall.pc = "called"
    /\ IF Len(pcall.args.query) = 0 \/ pcall.args.k <= 0
       THEN pcall' = [pcall EXCEPT !.pc = "raised", !.error = "ValueError"]
       ELSE \/ pcall' = [pcall EXCEPT !.pc = "fetch", !.embed_calls = 1]
            \/ pcall' = [pcall EXCEPT !.pc = "raised", !.error = "embedding",
                                      !.embed_calls = 1]
    /\ UNCHANGED <<document_metadata, rowsVars, textVars, dbVars>>

\* fetch(...) returns the rows of match_documents; rag_search returns them.
RagSearchFetch ==
    /\ pcall.fn = "rag_search"
    /\ pcall.pc = "fetch"
    /\ pcall' = [pcall EXCEPT !.pc = "returned"]
    /\ UNCHANGED <<document_metadata, rowsVars, textVars, dbVars>>

\* fetch(...) raises; rag_search raises Exception("RAG search failed: ...").
RagSearchFetchFails ==
    /\ pcall.fn = "rag_search"
    /\ pcall.pc = "fetch"
    /\ pcall' = [pcall EXCEPT !.pc = "raised", !.error = "RAG search failed"]
    /\ UNCHANGED <<document_metadata, rowsVars, textVars, dbVars>>

\* _join_context(snippets, max_chars) runs and returns its string.
JoinContext ==
    /\ pcall.fn = "_join_context"
    /\ pcall.pc = "called"
    /\ pcall' = [pcall EXCEPT
                    !.pc = "returned",
                    !.result = _join_context(pcall.args.snippets,
                                             pcall.args.max_chars)]
    /\ UNCHANGED <<document_metadata, rowsVars, textVars, dbVars>>

NextCalls ==
    \/ ChunkText
    \/ JoinContext
    \/ RagSearch
    \/ RagSearchFetch
    \/ RagSearchFetchFails

SpecCalls == InitCalls /\ [][NextCalls]_vars

\* ---------------------------------------------------------------- module db

\* The pools that have been created and not closed.
OpenPools == { i \in 1..Len(pools) : pools[i] = "open" }

\* connect() is called: with a pool set it returns at once, with none it
\* awaits asyncpg.create_pool.
Connect(p) ==
    /\ dcall[p].pc = "idle"
    /\ dcall' = [dcall EXCEPT ![p] =
                    [IdleDb EXCEPT
                       !.fn = "connect",
                       !.at_call = _pool,
                       !.pc = IF _pool = NoPool THEN "create_pool"
                              ELSE "returned"]]
    /\ UNCHANGED <<_pool, pools>>

\* create_pool returns a new pool, and connect assigns it to _pool.
CreatePoolReturns(p) ==
    /\ dcall[p].pc = "create_pool"
    /\ Len(pools) < MaxPools
    /\ pools' = Append(pools, "open")
    /\ _pool' = Len(pools) + 1
    /\ dcall' = [dcall EXCEPT ![p].pc = "returned"]

\* create_pool raises: connect raises RuntimeError and leaves _pool alone.
CreatePoolFails(p) ==
    /\ dcall[p].pc = "create_pool"
    /\ dcall' = [dcall EXCEPT ![p].pc = "returned", ![p].error = TRUE]
    /\ UNCHANGED <<_pool, pools>>

\* close() is called: with no pool set it returns at once, with one it awaits
\* the close() of that pool.
Close(p) ==
    /\ dcall[p].pc = "idle"
    /\ dcall' = [dcall EXCEPT ![p] =
                    [IdleDb EXCEPT
                       !.fn = "close",
                       !.at_call = _pool,
                       !.pool = _pool,
                       !.pc = IF _pool = NoPool THEN "returned"
                              ELSE "pool_close"]]
    /\ UNCHANGED <<_pool, pools>>

\* The pool's close() returns: the pool is closed, and the finally clause
\* sets _pool to None.
PoolCloseReturns(p) ==
    /\ dcall[p].pc = "pool_close"
    /\ pools' = [pools EXCEPT ![dcall[p].pool] = "closed"]
    /\ _pool' = NoPool
    /\ dcall' = [dcall EXCEPT ![p].pc = "returned"]

\* The pool's close() raises (asyncpg terminates the pool's connections
\* before it re-raises): close raises RuntimeError, and the finally clause
\* sets _pool to None all the same.
PoolCloseFails(p) ==
    /\ dcall[p].pc = "pool_close"
    /\ pools' = [pools EXCEPT ![dcall[p].pool] = "closed"]
    /\ _pool' = NoPool
    /\ dcall' = [dcall EXCEPT ![p].pc = "returned", ![p].error = TRUE]

\* fetch(query) or exec(query) is called: with no pool set it raises
\* RuntimeError, with one it hands the query to that pool and awaits it.
Query(p, fn) ==
    /\ dcall[p].pc = "idle"
    /\ dcall' = [dcall EXCEPT ![p] =
                    IF _pool = NoPool
                    THEN [IdleDb EXCEPT !.fn = fn, !.pc = "returned",
                                        !.error = TRUE]
                    ELSE [IdleDb EXCEPT !.fn = fn, !.pc = "query",
                                        !.at_call = _pool, !.pool = _pool,
                                        !.ran = TRUE]]
    /\ UNCHANGED <<_pool, pools>>

\* The pool answers the query: only a pool that is not closed can.
QueryReturns(p) ==
    /\ dcall[p].pc = "query"
    /\ pools[dcall[p].pool] = "open"
    /\ dcall' = [dcall EXCEPT ![p].pc = "returned"]
    /\ UNCHANGED <<_pool, pools>>

\* The pool raises: fetch or exec raises RuntimeError.
QueryFails(p) ==
    /\ dcall[p].pc = "query"
    /\ dcall' = [dcall EXCEPT ![p].pc = "returned", ![p].error = TRUE]
    /\ UNCHANGED <<_pool, pools>>

\* The caller has its result or its error; the slot takes another call.
DbDone(p) ==
    /\ dcall[p].pc = "returned"
    /\ dcall' = [dcall EXCEPT ![p] = IdleDb]
    /\ UNCHANGED <<_pool, pools>>

DbStep(p) ==
    \/ Connect(p)
    \/ CreatePoolReturns(p)
    \/ CreatePoolFails(p)
    \/ Close(p)
    \/ PoolCloseReturns(p)
    \/ PoolCloseFails(p)
    \/ \E fn \in {"fetch", "exec"} : Query(p, fn)
    \/ QueryReturns(p)
    \/ QueryFails(p)
    \/ DbDone(p)

NextDb ==
    \E p \in Procs :
        /\ DbStep(p)
        /\ UNCHANGED <<document_metadata, rowsVars, textVars, pcall>>

SpecDb == Init /\ [][NextDb]_vars

\* --------------------------------------------------- properties: ingest_rows

\* The fingerprints stored for the call's dataset when the call started (E).
PreHashes(c) == ExistingHashes(c.pre_rows, c.body.file_id)

\* The fingerprints of the call's incoming rows (I).
IncomingHashes(c) ==
    { _hash_row(c.body.rows[i]) : i \in 1..Len(c.body.rows) }

\* The call has returned status ok in the given mode.
Returned(c, mode) == c.pc = "ok" /\ c.response.mode = mode

\* The rows of the table that belong to the dataset.
RowsOf(tbl, file_id) == BagFilter(tbl, LAMBDA r : r.dataset_id = file_id)

\* How many rows of the table carry the fingerprint in the dataset.
CountOf(tbl, file_id, h) ==
    BagCardinality(BagFilter(tbl,
        LAMBDA r : r.dataset_id = file_id /\ r.row_hash = h))

\* No fingerprint is stored twice for the dataset.
UniqueHashes(tbl, file_id) ==
    \A h \in ExistingHashes(tbl, file_id) : CountOf(tbl, file_id, h) = 1

\* The statements of the call's history that name the fingerprint: an INSERT
\* of it, a DELETE by fingerprint that lists it, or the DELETE of the dataset.
Touching(c, h) ==
    { k \in 1..Len(c.writes) :
        \/ c.writes[k].op \in {"insert", "delete_hashes"} /\ h \in c.writes[k].hashes
        \/ c.writes[k].op = "delete_all" }

\* C1: a successful incremental call reports rows_inserted = |I \ E|, counted
\* by distinct fingerprint, for every stored set E and incoming list.
C1_InsertedCount ==
    \A p \in Procs :
        Returned(rcall[p], "incremental") =>
            rcall[p].response.rows_inserted =
                Cardinality(IncomingHashes(rcall[p]) \ PreHashes(rcall[p]))

\* C2: a successful ingest_rows call (either mode) that finds no fingerprint
\* stored twice for its dataset leaves none stored twice: identical incoming
\* rows collapse to one stored record.  (The store starts without duplicates,
\* so this is the invariant after any sequence of successful calls.)
C2_UniqueFingerprints ==
    \A p \in Procs :
        (rcall[p].pc = "ok"
           /\ UniqueHashes(rcall[p].pre_rows, rcall[p].body.file_id))
        => UniqueHashes(document_rows, rcall[p].body.file_id)

\* C3: after a successful full-refresh call the fingerprints stored for the
\* dataset are exactly those of the incoming rows, whatever was stored before.
C3_FullRefreshState ==
    \A p \in Procs :
        Returned(rcall[p], "full_refresh") =>
            ExistingHashes(document_rows, rcall[p].body.file_id)
                = IncomingHashes(rcall[p])

\* C3 witness: a full refresh has returned over a dataset that held a
\* fingerprint the incoming rows do not have.
C3_Witness ==
    \E p \in Procs :
        /\ Returned(rcall[p], "full_refresh")
        /\ PreHashes(rcall[p]) \ IncomingHashes(rcall[p]) # {}
        /\ IncomingHashes(rcall[p]) \ PreHashes(rcall[p]) # {}

\* C4: a successful incremental call reports rows_deleted = |E \ I|, leaves no
\* stored row of the dataset with a fingerprint in E \ I, and removes no row
\* whose fingerprint is in I.
C4_IncrementalDeletes ==
    \A p \in Procs :
        LET c == rcall[p]
            E == PreHashes(c)
            I == IncomingHashes(c)
        IN  Returned(c, "incremental") =>
              /\ c.response.rows_deleted = Cardinality(E \ I)
              /\ \A h \in E \ I : CountOf(document_rows, c.body.file_id, h) = 0
              /\ \A r \in DOMAIN RowsOf(c.pre_rows, c.body.file_id) :
                    r.row_hash \in I =>
                        CopiesIn(r, document_rows) >= CopiesIn(r, c.pre_rows)

\* C4 witness: an incremental call has returned that had a stored fingerprint
\* to delete and a stored fingerprint to keep.
C4_Witness ==
    \E p \in Procs :
        /\ Returned(rcall[p], "incremental")
        /\ PreHashes(rcall[p]) \ IncomingHashes(rcall[p]) # {}
        /\ PreHashes(rcall[p]) \cap IncomingHashes(rcall[p]) # {}

\* C5: an incremental call that repeats the request of a successful
\* incremental call, with no call in between, reports rows_inserted = 0 and
\* rows_deleted = 0 and leaves the stored rows unchanged.
C5_IncrementalIdempotent ==
    \A p \in Procs :
        (Returned(rcall[p], "incremental") /\ rcall[p].after = "ok") =>
            /\ rcall[p].response.rows_inserted = 0
            /\ rcall[p].response.rows_deleted = 0
            /\ document_rows = rcall[p].pre_rows

\* C5 witness: the repeated incremental call has returned, for a request of
\* two rows with different fingerprints.
C5_Witness ==
    \E p \in Procs :
        /\ Returned(rcall[p], "incremental")
        /\ rcall[p].after = "ok"
        /\ Cardinality(IncomingHashes(rcall[p])) >= 2

C10_UnchangedRowsUntouched ==
    \A p \in Procs :
        LET c == rcall[p]
        IN  Returned(c, "incremental") =>
              \A h \in PreHashes(c) \cap IncomingHashes(c) :
                 /\ Touching(c, h) = {}
                 /\ \A r \in DOMAIN RowsOf(c.pre_rows, c.body.file_id)
                              \cup DOMAIN RowsOf(document_rows, c.body.file_id) :
                       r.row_hash = h =>
                         CopiesIn(r, document_rows) = CopiesIn(r, c.pre_rows)

\* C10 witness: an incremental call has returned that found a fingerprint of
\* its incoming rows stored and that deleted or inserted another one.
C10_Witness ==
    \E p \in Procs :
        /\ Returned(rcall[p], "incremental")
        /\ PreHashes(rcall[p]) \cap IncomingHashes(rcall[p]) # {}
        /\ rcall[p].response.rows_inserted + rcall[p].response.rows_deleted > 0

\* The incoming row list has an element that is not a key-value record.
HasNonRecord(c) == \E i \in 1..Len(c.body.rows) : ~c.body.rows[i].isdict

\* C11: an incremental call whose row list has a non-record element never
\* reaches the SELECT, the delete phase or the insert phase and never returns
\* ok: it executes no DELETE and no INSERT, the stored rows stay as the call
\* found them, and when it fails the error is the malformed-input error (400)
\* unless a store operation failed first.
C11_IncrementalRejectsBeforeRowWrites ==
    \A p \in Procs :
        LET c == rcall[p]
        IN  (c.pc # "idle" /\ ~c.body.full_refresh /\ HasNonRecord(c)) =>
              /\ c.pc \in {"upsert_metadata", "update_schema", "error"}
              /\ document_rows = c.pre_rows
              /\ \A k \in 1..Len(c.writes) :
                    c.writes[k].op \in {"upsert_metadata", "update_schema"}
              /\ c.pc = "error" =>
                    \/ c.response.code = 400
                    \/ c.response.detail = "Database failed"

\* C11 witness: an incremental call over a dataset that holds rows has been
\* rejected by the isinstance check of the fingerprinting loop.
C11_Witness ==
    \E p \in Procs :
        /\ rcall[p].pc = "error"
        /\ ~rcall[p].body.full_refresh
        /\ rcall[p].response.detail = "Each row must be a JSON object."
        /\ PreHashes(rcall[p]) # {}

\* C12: an ingest_rows call (either mode) whose rows contain no key at all and
\* that fails with the malformed-input error (400) has modified no store: the
\* metadata table and the stored rows are as the call found them.
C12_EmptySchemaNoSideEffect ==
    \A p \in Procs :
        LET c == rcall[p]
        IN  (/\ c.pc = "error"
             /\ c.response.code = 400
             /\ \A i \in 1..Len(c.body.rows) :
                   c.body.rows[i].isdict /\ c.body.rows[i].items = << >>)
            => /\ document_metadata = c.pre_meta
               /\ document_rows = c.pre_rows

\* C19: a successful full-refresh call reports rows_inserted = the number of
\* incoming rows and rows_deleted = 0, whatever the dataset held before.
C19_FullRefreshReport ==
    \A p \in Procs :
        LET c == rcall[p]
        IN  Returned(c, "full_refresh") =>
              /\ c.response.rows_inserted = Len(c.body.rows)
              /\ c.response.rows_deleted = 0

\* C19 witness: a full refresh of two incoming rows has returned over a
\* dataset that held a row the call removed.
C19_Witness ==
    \E p \in Procs :
        /\ Returned(rcall[p], "full_refresh")
        /\ Len(rcall[p].body.rows) = 2
        /\ PreHashes(rcall[p]) \ IncomingHashes(rcall[p]) # {}

\* The keys of the record rows, row by row and within a row in item order.
KeyOccurrences(rows) ==
    { <<i, j>> \in (1..Len(rows)) \X (1..Len(KeyOrder)) :
        rows[i].isdict /\ j <= Len(rows[i].items) }

\* Occurrence x comes before occurrence y: earlier row, or earlier in the row.
Before(x, y) == x[1] < y[1] \/ (x[1] = y[1] /\ x[2] < y[2])

\* The first occurrence of key k in the rows.
FirstSeen(rows, k) ==
    CHOOSE x \in KeyOccurrences(rows) :
        /\ rows[x[1]].items[x[2]][1] = k
        /\ \A y \in KeyOccurrences(rows) :
              rows[y[1]].items[y[2]][1] = k => (y = x \/ Before(x, y))

\* s lists the keys of the rows in first-seen order, each exactly once.
IsFirstSeenOrder(s, rows) ==
    /\ Range(s) = { rows[x[1]].items[x[2]][1] : x \in KeyOccurrences(rows) }
    /\ \A m, n \in 1..Len(s) :
          m < n => /\ s[m] # s[n]
                   /\ Before(FirstSeen(rows, s[m]), FirstSeen(rows, s[n]))

\* C20: in both modes, the schema_keys a successful ingest_rows call returns
\* and the schema it has stored for the document are the keys of the call's
\* rows in first-seen order, each exactly once, whatever schema and rows were
\* stored before.
C20_SchemaDerivation ==
    \A p \in Procs :
        LET c == rcall[p]
        IN  c.pc = "ok" =>
              /\ IsFirstSeenOrder(c.response.schema_keys, c.body.rows)
              /\ c.body.file_id \in DOMAIN document_metadata
              /\ document_metadata[c.body.file_id].schema = c.response.schema_keys

\* C20 witness: a call has returned the schema <<"b", "a">> (first-seen, not
\* sorted) for a document that had another schema stored.
C20_Witness ==
    \E p \in Procs :
        LET c == rcall[p]
        IN  /\ c.pc = "ok"
            /\ c.response.schema_keys = <<"b", "a">>
            /\ c.body.file_id \in DOMAIN c.pre_meta
            /\ c.pre_meta[c.body.file_id].schema \notin {NoSchema, <<"b", "a">>}

\* C23: when an ingest_rows call (either mode) failed because a store
\* operation failed in its delete or insert phase, and the same request is
\* run again until it succeeds, the fingerprints stored for the dataset are
\* exactly those of the request's rows.
C23_RetryIsSafe ==
    \A p \in Procs :
        LET c == rcall[p]
        IN  (c.pc = "ok" /\ c.after = "error" /\ c.prior.code = 500) =>
              ExistingHashes(document_rows, c.body.file_id) = IncomingHashes(c)

\* C23 witness: a request has succeeded on its retry after the attempt before
\* failed partway, with a DELETE or INSERT already executed, and left the
\* dataset with stored fingerprints not those of the request.
C23_Witness ==
    \E p \in Procs :
        LET c == rcall[p]
        IN  /\ c.pc = "ok"
            /\ c.after = "error"
            /\ c.prior.code = 500
            /\ c.prior.row_writes >= 1
            /\ PreHashes(c) # IncomingHashes(c)

RECURSIVE InsertAll(_, _, _, _)
\* The table after the INSERT of the rows from the i-th on.
InsertAll(tbl, file_id, rows, i) ==
    IF i > Len(rows) THEN tbl
    ELSE InsertAll(InsertRowEffect(tbl, file_id, json_dumps(rows[i]),
                                   _hash_row(rows[i])),
                   file_id, rows, i + 1)

\* The table a successful full-refresh call with these rows leaves.
FullRefreshOutcome(tbl, file_id, rows) ==
    InsertAll(DeleteAllRowsEffect(tbl, file_id), file_id, rows, 1)

\* C25: a successful incremental call leaves for the dataset the same set of
\* stored fingerprints as a successful full-refresh call with the same rows
\* on the same prior state: the set of fingerprints of the incoming rows.
C25_ModesAgree ==
    \A p \in Procs :
        LET c == rcall[p]
        IN  Returned(c, "incremental") =>
              /\ ExistingHashes(document_rows, c.body.file_id)
                   = ExistingHashes(FullRefreshOutcome(c.pre_rows, c.body.file_id,
                                                       c.body.rows),
                                    c.body.file_id)
              /\ ExistingHashes(document_rows, c.body.file_id) = IncomingHashes(c)

\* C25 witness: an incremental call has returned that had a stored
\* fingerprint to delete and a new one to insert.
C25_Witness ==
    \E p \in Procs :
        /\ Returned(rcall[p], "incremental")
        /\ PreHashes(rcall[p]) \ IncomingHashes(rcall[p]) # {}
        /\ IncomingHashes(rcall[p]) \ PreHashes(rcall[p]) # {}

\* The fingerprints stored for the dataset of the two calls.
StoredHashes == ExistingHashes(document_rows, rcall[1].body.file_id)

\* Two full-refresh calls for the same dataset id have both returned ok.
BothReturned ==
    /\ \A p \in Procs : Returned(rcall[p], "full_refresh")
    /\ rcall[1].body.file_id = rcall[2].body.file_id

\* C21: nothing keeps two full-refresh calls for one dataset id apart: when
\* both have returned ok, the stored fingerprints are those of one call's rows
\* together with any of the other's (all within the two inputs), and there
\* is an interleaving after which they are the fingerprint set of neither
\* input (the state of C21_LostFullReplace).
C21_OverlapOutcome ==
    BothReturned =>
        /\ StoredHashes \subseteq
              IncomingHashes(rcall[1]) \cup IncomingHashes(rcall[2])
        /\ \/ IncomingHashes(rcall[1]) \subseteq StoredHashes
           \/ IncomingHashes(rcall[2]) \subseteq StoredHashes

\* C21 witness: two full-refresh calls with different inputs A and B have
\* both returned ok and the stored fingerprint set is neither A's nor B's.
C21_LostFullReplace ==
    /\ BothReturned
    /\ IncomingHashes(rcall[1]) # IncomingHashes(rcall[2])
    /\ StoredHashes # IncomingHashes(rcall[1])
    /\ StoredHashes # IncomingHashes(rcall[2])

\* --------------------------------------------------- properties: ingest_text

\* The chunk records stored for the file id.
ChunksOf(tbl, file_id) == BagFilter(tbl, LAMBDA d : d.metadata.file_id = file_id)

\* How many chunk records of the file id carry the chunk_index.
IndexCount(tbl, file_id, idx) ==
    BagCardinality(BagFilter(tbl,
        LAMBDA d : d.metadata.file_id = file_id /\ d.metadata.chunk_index = idx))

\* The Chunker's output count for the call's text.
ChunkCount(c) == Len(chunk_text(c.body.content, ChunkSize, Overlap).out)

\* C7: an ingest_text call has not completed, with success or with an error,
\* while a chunk write it dispatched is still in flight.
C7_CompletionWaitsForWrites ==
    \A p \in Procs :
        tcall[p].pc \in {"ok", "error"} => InFlight(tcall[p].gather) = {}

\* C8: with ingest_text calls that do not overlap in time, from the moment a
\* call returns success until the next call starts the chunk records of the
\* file id carry the chunk_index values 0 .. n-1, each exactly once (n the
\* Chunker's output count for the call's text).
C8_ChunkIndexSequence ==
    \A p \in Procs :
        LET c == tcall[p]
        IN  c.pc = "ok" =>
              /\ \A i \in 0..(ChunkCount(c) - 1) :
                    IndexCount(documents, c.body.file_id, i) = 1
              /\ \A d \in DOMAIN ChunksOf(documents, c.body.file_id) :
                    d.metadata.chunk_index \in 0..(ChunkCount(c) - 1)

\* C9: after a successful ingest_text call the number of chunk records stored
\* for the file id is the Chunker's output count for the text (window 1000,
\* overlap 150), whatever was stored before, and is the reported
\* chunks_inserted; so ingesting a document again does not accumulate.
C9_FullReplaceCount ==
    \A p \in Procs :
        LET c == tcall[p]
        IN  c.pc = "ok" =>
              /\ BagCardinality(ChunksOf(documents, c.body.file_id)) = ChunkCount(c)
              /\ c.response.chunks_inserted = ChunkCount(c)

C14_PartialFailure ==
    \A p \in Procs :
        LET c == tcall[p]
        IN  c.failed =>
              /\ c.pc \in {"gather", "error"}
              /\ c.pc = "gather" =>
                    \E t \in tasks : t.gather = c.gather /\ t.state = "failed"
              /\ c.pc = "error" =>
                    \A i \in c.wrote :
                        IndexCount(documents, c.body.file_id, i) >= 1

\* C14 witness: a call has ended with the error of a failed chunk write after
\* it wrote a chunk, and the file id holds fewer chunks than the Chunker
\* produced.
C14_Witness ==
    \E p \in Procs :
        LET c == tcall[p]
        IN  /\ c.failed
            /\ c.pc = "error"
            /\ c.wrote # {}
            /\ BagCardinality(ChunksOf(documents, c.body.file_id)) < ChunkCount(c)

\* ------------------------------------- properties: chunk_text and rag_search

\* The parameters are invalid: chunk_size <= 0 or overlap outside
\* [0, chunk_size).
InvalidParams(a) ==
    a.chunk_size <= 0 \/ a.overlap < 0 \/ a.overlap >= a.chunk_size

\* The chunk_text call under examination has run.
ChunkTextRan == pcall.fn = "chunk_text" /\ pcall.pc # "called"

\* C15: for every text, the empty one included, chunk_text / iter_chunks with
\* chunk_size <= 0, overlap < 0 or overlap >= chunk_size fails with the
\* invalid-parameter error and emits no pair.
C15_ParameterValidation ==
    (ChunkTextRan /\ InvalidParams(pcall.args)) =>
        pcall.pc = "raised" /\ pcall.out = << >>

\* The sliding-window reference: no pair for the empty text, the pair
\* (0, text) for a text of at most chunk_size characters, otherwise the pairs
\* (i, text[i*step .. min(n, i*step + chunk_size))) for every i >= 0 with
\* i*step < n, where step = chunk_size - overlap.
ReferenceChunks(text, chunk_size, overlap) ==
    LET n == Len(text)
        step == chunk_size - overlap
        count == (n + step - 1) \div step
    IN  IF n = 0 THEN << >>
        ELSE IF n <= chunk_size THEN << <<0, text>> >>
        ELSE [k \in 1..count |->
                <<k - 1, SubSeq(text, (k - 1) * step + 1,
                                Min(n, (k - 1) * step + chunk_size))>>]

\* C16: with valid parameters chunk_text returns (so the sequence is finite)
\* exactly the sliding-window reference, indexes consecutive from 0.
C16_SlidingWindowReference ==
    (ChunkTextRan /\ ~InvalidParams(pcall.args)) =>
        /\ pcall.pc = "returned"
        /\ pcall.out = ReferenceChunks(pcall.args.text, pcall.args.chunk_size,
                                       pcall.args.overlap)
        /\ \A k \in 1..Len(pcall.out) : pcall.out[k][1] = k - 1

\* C16 witness: the text of 2500 characters with chunk_size 1000 and overlap
\* 150 has been chunked into 3 chunks.
C16_Witness ==
    /\ ChunkTextRan
    /\ pcall.pc = "returned"
    /\ Len(pcall.args.text) = 2500
    /\ Len(pcall.out) = 3

\* chunk[overlap:] of Python.
DropFirst(chunk, overlap) ==
    IF overlap >= Len(chunk) THEN ""
    ELSE SubSeq(chunk, overlap + 1, Len(chunk))

RECURSIVE Reassemble(_, _, _)
\* The chunks from the k-th on, each without its first overlap characters,
\* concatenated in index order.
Reassemble(out, overlap, k) ==
    IF k > Len(out) THEN ""
    ELSE DropFirst(out[k][2], overlap) \o Reassemble(out, overlap, k + 1)

\* C17: with valid parameters, the first chunk followed by every later chunk
\* without its first overlap characters is exactly the original text.
C17_RoundTrip ==
    (ChunkTextRan /\ pcall.pc = "returned" /\ ~InvalidParams(pcall.args)) =>
        (IF pcall.out = << >> THEN ""
         ELSE pcall.out[1][2] \o Reassemble(pcall.out, pcall.args.overlap, 2))
        = pcall.args.text

\* C17 witness: a text has been chunked into three or more windows the last
\* of which is shorter than the overlap.
C17_Witness ==
    /\ ChunkTextRan
    /\ pcall.pc = "returned"
    /\ Len(pcall.out) >= 3
    /\ Len(pcall.out[Len(pcall.out)][2]) < pcall.args.overlap

\* The query is empty or consists only of spaces.
IsBlank(query) == \A i \in 1..Len(query) : SubSeq(query, i, i) = " "

\* C18: for every query that is empty or only whitespace, and for every
\* k <= 0, rag_search fails with the invalid-input error (ValueError) and
\* embed_text is never called.
C18_RetrievalValidation ==
    (/\ pcall.fn = "rag_search"
     /\ pcall.pc # "called"
     /\ (IsBlank(pcall.args.query) \/ pcall.args.k <= 0))
    => /\ pcall.pc = "raised"
       /\ pcall.error = "ValueError"
       /\ pcall.embed_calls = 0

\* ------------------------------------------------------ properties: fan-out

\* Every chunk of the call's document has been dispatched: none of its tasks
\* still waits for the semaphore.
AllDispatched ==
    /\ tcall[1].pc \in {"gather", "ok"}
    /\ \A t \in tasks : t.gather = tcall[1].gather => t.state # "waiting"

\* C22: at every moment of an ingest_text call at most 16 of its chunk writes
\* are in flight and no chunk is written twice, and every chunk of the
\* document is eventually dispatched.
C22_BoundedFanOut ==
    /\ [](/\ Cardinality(InFlight(1)) <= SemaphoreLimit
          /\ \A i \in FanOutIndexes :
                IndexCount(documents, tcall[1].body.file_id, i) <= 1)
    /\ (tcall[1].pc = "gather") ~> AllDispatched

\* C22 witness: 16 chunk writes are in flight while another chunk waits.
C22_Witness ==
    /\ Cardinality(InFlight(1)) = SemaphoreLimit
    /\ \E t \in tasks : t.gather = 1 /\ t.state = "waiting"

\* ------------------------------------------------ properties: _join_context

\* The non-empty snippets, in their original order.
NonEmptySnippets(snippets) == SelectSeq(snippets, LAMBDA s : s # "")

\* The first m non-empty snippets, joined with the separator, fit the budget.
PrefixFits(snippets, max_chars, m) ==
    Len(SepJoin(SubSeq(NonEmptySnippets(snippets), 1, m))) <= max_chars

\* The number of snippets in the longest prefix of the non-empty snippets
\* that fits the budget.
LongestFit(snippets, max_chars) ==
    CHOOSE m \in 0..Len(NonEmptySnippets(snippets)) :
        /\ PrefixFits(snippets, max_chars, m)
        /\ \A n \in 0..Len(NonEmptySnippets(snippets)) :
              PrefixFits(snippets, max_chars, n) => n <= m

\* C24: for every list of snippets and every max_chars >= 0, the string
\* _join_context returns has at most max_chars characters and is the
\* separator-joined longest prefix of the non-empty snippets that fits the
\* budget.
C24_ContextBudget ==
    (pcall.fn = "_join_context" /\ pcall.pc = "returned") =>
        /\ Len(pcall.result) <= pcall.args.max_chars
        /\ pcall.result =
             SepJoin(SubSeq(NonEmptySnippets(pcall.args.snippets), 1,
                            LongestFit(pcall.args.snippets,
                                       pcall.args.max_chars)))

\* C24 witness: a call has returned its first snippet alone although, after
\* the second one did not fit, the third one would have.
C24_Witness ==
    /\ pcall.fn = "_join_context"
    /\ pcall.pc = "returned"
    /\ pcall.args.snippets = <<"a", "bb", "a">>
    /\ pcall.args.max_chars = Len("a") + Len(Sep) + Len("a")
    /\ pcall.result = "a"

\* ---------------------------------------------------- properties: module db

\* A call of fetch or exec that began with no pool set.
QueriedWithoutPool(p) ==
    /\ dcall[p].fn \in {"fetch", "exec"}
    /\ dcall[p].at_call = NoPool

\* C26: in every interleaving of connect(), close(), fetch() and exec()
\* calls, at most one pool exists that has been created and not closed; a
\* pool that is not closed is the pool _pool refers to, so that a later
\* close() closes it; and a fetch() or exec() called while no pool is set has
\* failed with an error without handing its query to any pool.
C26_SinglePool ==
    /\ Cardinality(OpenPools) <= 1
    /\ \A i \in OpenPools : _pool = i
    /\ \A p \in Procs :
          QueriedWithoutPool(p) =>
              dcall[p].pc = "returned" /\ dcall[p].error /\ ~dcall[p].ran

====
